---- MODULE Spec2Model ----
(***************************************************************************)
(* Reversible pseudonymization subsystem of DueDiligence_Notes_Processing: *)
(* the term registry (DD_Term_Storage.store_terms, table `terms` of        *)
(* terms.db), the forward transform (DD_Pseudonymization.pseudonymize) and *)
(* the reversal (DD_Unpseudonymization.unpseudonymize).                    *)
(*                                                                         *)
(* Text is a sequence of one-character strings, so that strip, split,      *)
(* substring replacement and JSON formatting/parsing are computed, not     *)
(* assumed.  A cell of a DataFrame / a value of a result dict is a record  *)
(* [t, v]: t is "text", "num" or "null", v is the text (for a number its   *)
(* str() rendering).                                                       *)
(***************************************************************************)
EXTENDS Integers, Sequences, FiniteSets, TLC

VARIABLES
    digest,         \* hashlib.sha256 on the strings the program hashes (fixed per deployment)
    tableExists,    \* terms.db: does table `terms` exist
    terms,          \* terms.db: rows of table terms (term TEXT UNIQUE)
    pc,             \* where the caller is: "idle", "pseudonymized", "reversed"
    records,        \* the caller's input DataFrame (clean_data), or NoFrame
    data,           \* DataFrame returned by pseudonymize, or None
    mapping,        \* dict returned by pseudonymize (in memory only), or None
    raised,         \* the step of the last pseudonymize call that raised, or "none"
    result_object,  \* the dict handed to unpseudonymize, or None
    query,          \* which row / shape result_object was built from
    restored,       \* what unpseudonymize returned (None on failure), or NotRun
    reverse_raised, \* the exception the last unpseudonymize call caught, or "none"
    conn,           \* the sqlite3 connection of the last call at its return
    main_pc,        \* DD_Main.main: the stage it is about to run, or how it ended
    stages,         \* DD_Main.main: the stages started so far, each with its outcome
    written         \* DD_Main.main: the outputs store_output has written

mainVars == <<main_pc, stages, written>>

vars == <<digest, tableExists, terms, pc, records, data, mapping, raised,
          result_object, query, restored, reverse_raised, conn, main_pc, stages,
          written>>

None == [t |-> "None"]
NoFrame == [t |-> "NoFrame"]
NotRun == [t |-> "NotRun"]

----------------------------------------------------------------------------
(* Bounds *)

\* rows of a generated record set
MaxRows == 2

----------------------------------------------------------------------------
(* Text values *)

Acme == <<"A","c","m","e">>
AcmeCorp == <<"A","c","m","e"," ","C","o","r","p">>
Globex == <<"G","l","o","b","e","x">>
GlobexPadded == <<" ">> \o Globex \o <<" ">>
AcmePadded == <<" ">> \o Acme \o <<" ">>
AcmeQuoted == Acme \o <<" ", "\"", "A", "\"">>
ContactNote == <<"C","o","n","t","a","c","t"," ">> \o AcmeCorp \o <<" ","t","o","d","a","y">>
Seven == <<"7">>
Empty == <<>>

Text(s) == [t |-> "text", v |-> s]
Num(s) == [t |-> "num", v |-> s]
Null == [t |-> "null", v |-> Empty]

IsSpace(c) == c = " "

RECURSIVE lstrip(_)
lstrip(s) == IF s # <<>> /\ IsSpace(Head(s)) THEN lstrip(Tail(s)) ELSE s

RECURSIVE rstrip(_)
rstrip(s) ==
    IF s # <<>> /\ IsSpace(s[Len(s)]) THEN rstrip(SubSeq(s, 1, Len(s) - 1)) ELSE s

\* str.strip()
strip(s) == rstrip(lstrip(s))

\* index of the first c in s at or after i, 0 when there is none
RECURSIVE find(_, _, _)
find(s, c, i) ==
    IF i > Len(s) THEN 0
    ELSE IF s[i] = c THEN i
    ELSE find(s, c, i + 1)

\* str.split(','): always at least one piece, empty pieces kept
RECURSIVE split(_)
split(s) ==
    LET i == find(s, ",", 1)
    IN  IF i = 0 THEN <<s>>
        ELSE <<SubSeq(s, 1, i - 1)>> \o split(SubSeq(s, i + 1, Len(s)))

StartsWith(s, i, old) ==
    /\ i + Len(old) - 1 <= Len(s)
    /\ SubSeq(s, i, i + Len(old) - 1) = old

\* str.replace(old, new) for a non-empty old: left to right, non-overlapping
RECURSIVE str_replace(_, _, _)
str_replace(s, old, new) ==
    IF s = <<>> THEN <<>>
    ELSE IF StartsWith(s, 1, old)
         THEN new \o str_replace(SubSeq(s, Len(old) + 1, Len(s)), old, new)
         ELSE <<Head(s)>> \o str_replace(Tail(s), old, new)

Contains(s, old) == \E i \in 1..Len(s) : StartsWith(s, i, old)

----------------------------------------------------------------------------
(* Python dict: insertion-ordered list of <<key, value>> *)

\* a dict as a value held in a variable or returned by a function
Dict(items) == [t |-> "dict", items |-> items]

DictKeys(d) == {d[i][1] : i \in 1..Len(d)}

DictGet(d, k) == d[CHOOSE i \in 1..Len(d) : d[i][1] = k][2]

\* d[k] = v appended regardless of an existing key (used as a fault model only)
DictAppend(d, k, v) == Append(d, <<k, v>>)

\* d[k] = v
DictSet(d, k, v) ==
    IF k \in DictKeys(d)
    THEN [i \in 1..Len(d) |-> IF d[i][1] = k THEN <<k, v>> ELSE d[i]]
    ELSE Append(d, <<k, v>>)

\* d.update(e)
RECURSIVE DictUpdate(_, _)
DictUpdate(d, e) ==
    IF e = <<>> THEN d
    ELSE DictUpdate(DictSet(d, Head(e)[1], Head(e)[2]), Tail(e))

----------------------------------------------------------------------------
(* hashlib.sha256(x.encode()).hexdigest()[:10] *)

\* length of the hexadecimal prefix kept as the pseudonym
TokenLen == 10

HexDigits == <<"0","1","2","3","4","5","6","7","8","9","a","b","c","d","e","f">>

\* n written with `width` hexadecimal digits, as hexdigest() formats a digest
RECURSIVE Hex(_, _)
Hex(n, width) ==
    IF width = 0 THEN <<>>
    ELSE Append(Hex(n \div 16, width - 1), HexDigits[(n % 16) + 1])

\* the first TokenLen hexadecimal characters of a digest whose leading bits are n
HexPrefix(n) == Hex(n, TokenLen)

\* the original strings the program can come to hash, in a fixed enumeration
Originals == <<AcmeCorp, Globex, Acme, Seven, Empty, AcmePadded, AcmeQuoted>>

OriginalSet == {Originals[i] : i \in 1..Len(Originals)}

IndexOf(s) == CHOOSE i \in 1..Len(Originals) : Originals[i] = s

\* a first-level token can be hashed again (an identity cell that holds a token)
FirstTokens == {HexPrefix(i) : i \in 1..Len(Originals)}

HashDomain == OriginalSet \cup FirstTokens

\* a collision-free digest
InjectiveDigest ==
    [s \in HashDomain |->
        IF s \in OriginalSet THEN IndexOf(s)
        ELSE Len(Originals) + (CHOOSE i \in 1..Len(Originals) : HexPrefix(i) = s)]

\* the strings among which two may share a truncated digest
CollisionCandidates == {AcmeCorp, Globex}

\* SHA-256 truncated to 40 bits: collision-free on the strings hashed, or with
\* one pair of distinct strings sharing the prefix
DigestFns ==
    {InjectiveDigest} \cup
    {[InjectiveDigest EXCEPT ![b] = InjectiveDigest[a]] :
        <<a, b>> \in {p \in CollisionCandidates \X CollisionCandidates :
                        IndexOf(p[1]) < IndexOf(p[2])}}

\* hashlib.sha256(s.encode()).hexdigest()[:10]
sha256_hexdigest10(s) == HexPrefix(digest[s])

----------------------------------------------------------------------------
(* DataFrames *)

EE == "External Entity"
NOTES == "Notes"

Frame(cols, rows) == [t |-> "frame", cols |-> cols, rows |-> rows]

Row(entity, notes) == [c \in {EE, NOTES} |-> IF c = EE THEN entity ELSE notes]

NotesRow(notes) == [c \in {NOTES} |-> notes]

\* the rows record sets are generated from
Rows ==
    { Row(Text(AcmeCorp), Text(ContactNote)),
      Row(Text(Globex), Text(Acme)),
      Row(Text(Acme), Text(ContactNote)),
      Row(Text(GlobexPadded), Text(Acme)),
      Row(Num(Seven), Text(ContactNote)),
      Row(Null, Text(Acme)) }

RECURSIVE SeqsUpTo(_, _)
SeqsUpTo(S, n) ==
    IF n = 0 THEN {<<>>}
    ELSE LET shorter == SeqsUpTo(S, n - 1)
         IN  shorter \cup {Append(q, x) : q \in shorter, x \in S}

\* section 8 of the specification: "Acme Corp" twice and "Globex" once
EndToEndFrame ==
    Frame({EE, NOTES},
          << Row(Text(AcmeCorp), Text(ContactNote)),
             Row(Text(AcmeCorp), Text(Acme)),
             Row(Text(Globex), Text(ContactNote)) >>)

\* record sets without the identity column
NotesOnlyFrames ==
    {Frame({NOTES}, <<NotesRow(Text(n))>>) : n \in {Acme, ContactNote}}

Frames ==
    {Frame({EE, NOTES}, q) : q \in SeqsUpTo(Rows, MaxRows) \ {<<>>}}
        \cup {EndToEndFrame} \cup NotesOnlyFrames

----------------------------------------------------------------------------
(* DD_Pseudonymization.pseudonymize *)

\* lines 74-86: the loop that builds term_mapping from the fetched terms
RECURSIVE TermMapping(_, _)
TermMapping(fetched, acc) ==
    IF fetched = <<>> THEN acc
    ELSE LET term == Head(fetched)
             term_str == strip(term)
         IN  TermMapping(Tail(fetched),
                 IF term # Empty
                 THEN DictSet(acc, term_str, sha256_hexdigest10(term_str))
                 ELSE acc)

\* pandas replace with a dict {value: replacement} on one cell, ignoring the text
\* around a key (a substring match, used as a fault model only)
ReplaceCellSubstring(cell, d) ==
    IF cell.t = "text" /\ \E k \in DictKeys(d) : Contains(cell.v, k)
    THEN Text(DictGet(d, CHOOSE k \in DictKeys(d) : Contains(cell.v, k)))
    ELSE cell

\* pandas replace with a dict {value: replacement} on one cell: a cell is
\* replaced when its whole value equals a key (a number never equals a str key)
ReplaceCell(cell, d) ==
    IF cell.t = "text" /\ cell.v \in DictKeys(d) THEN Text(DictGet(d, cell.v)) ELSE cell

\* DataFrame.replace(d): every cell of every column
ReplaceFrame(df, d) ==
    Frame(df.cols,
          [i \in 1..Len(df.rows) |-> [c \in df.cols |-> ReplaceCell(df.rows[i][c], d)]])

\* df[col] = df[col].replace(d)
ReplaceColumn(df, col, d) ==
    Frame(df.cols,
          [i \in 1..Len(df.rows) |->
              [c \in df.cols |->
                  IF c = col THEN ReplaceCell(df.rows[i][c], d) ELSE df.rows[i][c]]])

\* df[col].dropna().unique(): the distinct non-null cells, in order of appearance
RECURSIVE Unique(_, _, _)
Unique(df, col, i) ==
    IF i = 0 THEN <<>>
    ELSE LET before == Unique(df, col, i - 1)
             cell == df.rows[i][col]
         IN  IF cell.t = "null" \/ \E j \in 1..Len(before) : before[j] = cell
             THEN before
             ELSE Append(before, cell)

\* lines 103-113: the loop that builds entity_mapping
RECURSIVE EntityMapping(_, _)
EntityMapping(entities, acc) ==
    IF entities = <<>> THEN acc
    ELSE LET entity_str == strip(Head(entities).v)
         IN  EntityMapping(Tail(entities),
                 IF entity_str # Empty
                 THEN DictSet(acc, entity_str, sha256_hexdigest10(entity_str))
                 ELSE acc)

\* a handler that hands back whatever had been transformed when the step failed
except_return_partial(partial) == partial

\* lines 128-136: every except clause returns None, None
except_return(partial) == [data |-> None, mapping |-> None]

\* a column check that raises KeyError, which the except clause turns into None, None
missing_column_raises(termResult) == except_return(termResult)

\* lines 97-98: 'External Entity' not in data.columns: print a warning and skip
\* the identity phase; the term-substituted data is what line 126 returns
missing_column(termResult) == termResult

\* pseudonymize(data) with the terms as fetched from terms.db; fault names the
\* step at which an exception is raised, if any
pseudonymize(df, fetched, fault) ==
    LET term_mapping == TermMapping(fetched, <<>>)
        afterTerms == ReplaceFrame(df, term_mapping)
        termResult == [data |-> afterTerms, mapping |-> Dict(DictUpdate(<<>>, term_mapping))]
        entity_mapping == EntityMapping(Unique(afterTerms, EE, Len(afterTerms.rows)), <<>>)
    IN  IF ~tableExists \/ fault = "db"
        THEN except_return([data |-> df, mapping |-> Dict(<<>>)])
        ELSE IF fault = "terms"
        THEN except_return([data |-> df, mapping |-> Dict(<<>>)])
        ELSE IF EE \notin df.cols
        THEN missing_column(termResult)
        ELSE IF fault = "entities"
        THEN except_return(termResult)
        ELSE [data |-> ReplaceColumn(afterTerms, EE, entity_mapping),
              mapping |-> Dict(DictUpdate(termResult.mapping.items, entity_mapping))]

----------------------------------------------------------------------------
(* json.dumps / json.loads on a flat dict: a list of <<key text, cell>> *)

JSONDecodeError == [t |-> "JSONDecodeError"]

Digits == <<"0","1","2","3","4","5","6","7","8","9">>

IsDigit(c) == \E i \in 1..Len(Digits) : Digits[i] = c

\* the escapes json.dumps applies to the characters of the model's alphabet
RECURSIVE json_escape(_)
json_escape(s) ==
    IF s = <<>> THEN <<>>
    ELSE (IF Head(s) = "\"" THEN <<"\\", "\"">>
          ELSE IF Head(s) = "\\" THEN <<"\\", "\\">>
          ELSE <<Head(s)>>) \o json_escape(Tail(s))

json_string(s) == <<"\"">> \o json_escape(s) \o <<"\"">>

json_value(cell) ==
    IF cell.t = "text" THEN json_string(cell.v)
    ELSE IF cell.t = "num" THEN cell.v
    ELSE <<"n","u","l","l">>

RECURSIVE json_items(_)
json_items(obj) ==
    IF obj = <<>> THEN <<>>
    ELSE json_string(Head(obj)[1]) \o <<":", " ">> \o json_value(Head(obj)[2])
         \o (IF Len(obj) > 1 THEN <<",", " ">> ELSE <<>>) \o json_items(Tail(obj))

\* json.dumps(obj) with the default separators
json_dumps(obj) == <<"{">> \o json_items(obj) \o <<"}">>

RECURSIVE SkipWs(_, _)
SkipWs(s, i) == IF i <= Len(s) /\ IsSpace(s[i]) THEN SkipWs(s, i + 1) ELSE i

Fail == [ok |-> FALSE]

\* the characters of a JSON string whose opening quote is at i - 1
RECURSIVE ParseChars(_, _, _)
ParseChars(s, i, acc) ==
    IF i > Len(s) THEN Fail
    ELSE IF s[i] = "\"" THEN [ok |-> TRUE, val |-> Text(acc), next |-> i + 1]
    ELSE IF s[i] = "\\"
         THEN IF i + 1 <= Len(s) /\ s[i + 1] \in {"\"", "\\"}
              THEN ParseChars(s, i + 2, Append(acc, s[i + 1]))
              ELSE Fail
    ELSE ParseChars(s, i + 1, Append(acc, s[i]))

RECURSIVE ParseDigits(_, _, _)
ParseDigits(s, i, acc) ==
    IF i <= Len(s) /\ IsDigit(s[i]) THEN ParseDigits(s, i + 1, Append(acc, s[i]))
    ELSE [ok |-> TRUE, val |-> Num(acc), next |-> i]

ParseValue(s, i) ==
    IF i > Len(s) THEN Fail
    ELSE IF s[i] = "\"" THEN ParseChars(s, i + 1, <<>>)
    ELSE IF IsDigit(s[i])
         THEN IF s[i] = "0" /\ i + 1 <= Len(s) /\ IsDigit(s[i + 1])
              THEN Fail          \* a leading zero is no JSON number
              ELSE ParseDigits(s, i, <<>>)
    ELSE IF StartsWith(s, i, <<"n","u","l","l">>)
         THEN [ok |-> TRUE, val |-> Null, next |-> i + 4]
    ELSE Fail

\* the members of an object from position i on: "key": value (, "key": value)* }
RECURSIVE ParseMembers(_, _, _)
ParseMembers(s, i0, acc) ==
    LET i == SkipWs(s, i0)
    IN  IF i > Len(s) \/ s[i] # "\"" THEN Fail
        ELSE LET key == ParseChars(s, i + 1, <<>>)
             IN  IF ~key.ok THEN Fail
                 ELSE LET c == SkipWs(s, key.next)
                      IN  IF c > Len(s) \/ s[c] # ":" THEN Fail
                          ELSE LET val == ParseValue(s, SkipWs(s, c + 1))
                               IN  IF ~val.ok THEN Fail
                                   ELSE LET e == SkipWs(s, val.next)
                                            got == DictSet(acc, key.val.v, val.val)
                                        IN  IF e > Len(s) THEN Fail
                                            ELSE IF s[e] = "}"
                                            THEN [ok |-> TRUE, val |-> got, next |-> e + 1]
                                            ELSE IF s[e] = ","
                                            THEN ParseMembers(s, e + 1, got)
                                            ELSE Fail

\* json.loads(s) for a text that should hold one flat object
json_loads(s) ==
    LET i == SkipWs(s, 1)
    IN  IF i > Len(s) \/ s[i] # "{" THEN JSONDecodeError
        ELSE LET j == SkipWs(s, i + 1)
                 r == IF j <= Len(s) /\ s[j] = "}"
                      THEN [ok |-> TRUE, val |-> <<>>, next |-> j + 1]
                      ELSE ParseMembers(s, j, <<>>)
             IN  IF r.ok /\ SkipWs(s, r.next) > Len(s) THEN Dict(r.val) ELSE JSONDecodeError

----------------------------------------------------------------------------
(* DD_Unpseudonymization.unpseudonymize *)

\* line 56: {sha256(term)[:10]: term for term in terms}, a later term taking the
\* place of an earlier one under the same key
RECURSIVE ReverseMapping(_, _)
ReverseMapping(fetched, acc) ==
    IF fetched = <<>> THEN acc
    ELSE ReverseMapping(Tail(fetched),
                        DictSet(acc, sha256_hexdigest10(Head(fetched)), Head(fetched)))

\* lines 62-63: one str.replace per mapping item, in the dict's order
RECURSIVE ReplaceAll(_, _)
ReplaceAll(data_str, items) ==
    IF items = <<>> THEN data_str
    ELSE ReplaceAll(str_replace(data_str, Head(items)[1], Head(items)[2]), Tail(items))

\* lines 59-66: json.dumps, the replacements, json.loads
Restore(obj, fetched) ==
    json_loads(ReplaceAll(json_dumps(obj.items), ReverseMapping(fetched, <<>>)))

\* the exception the call raises, or "none": the SELECT fails when the table is
\* absent, json.dumps accepts a dict and raises TypeError on a DataFrame, and
\* json.loads raises when the replacements broke the text
unpseudonymize_raises(obj, fetched, fault) ==
    IF ~tableExists \/ fault = "db" THEN "sqlite3.Error"
    ELSE IF obj.t # "dict" THEN "TypeError"
    ELSE IF Restore(obj, fetched) = JSONDecodeError THEN "JSONDecodeError"
    ELSE "none"

\* an except clause that hands the caller's object back
unpseudonymize_except_original(obj) == obj

\* lines 71-79: every except clause prints the error and returns None
unpseudonymize_except(obj) == None

\* unpseudonymize(data) with the terms as fetched from terms.db
unpseudonymize(obj, fetched, fault) ==
    IF unpseudonymize_raises(obj, fetched, fault) # "none"
    THEN unpseudonymize_except(obj)
    ELSE Restore(obj, fetched)

----------------------------------------------------------------------------
(* DD_Term_Storage.store_terms *)

Range(q) == {q[i] : i \in 1..Len(q)}

\* INSERT INTO terms without the uniqueness check
insert_always(tbl, term) == Append(tbl, term)

\* INSERT OR IGNORE INTO terms (term) VALUES (?) on a column declared UNIQUE
insert_or_ignore(tbl, term) == IF term \in Range(tbl) THEN tbl ELSE Append(tbl, term)

\* the loop of lines 48-49 storing each piece as typed
RECURSIVE InsertAllRaw(_, _)
InsertAllRaw(tbl, pieces) ==
    IF pieces = <<>> THEN tbl
    ELSE InsertAllRaw(insert_or_ignore(tbl, Head(pieces)), Tail(pieces))

\* lines 48-49: for term in terms: INSERT OR IGNORE ... (term.strip(),)
RECURSIVE InsertAll(_, _)
InsertAll(tbl, pieces) ==
    IF pieces = <<>> THEN tbl
    ELSE InsertAll(insert_or_ignore(tbl, strip(Head(pieces))), Tail(pieces))

\* the rows of table terms after store_terms() reads `line` from the operator;
\* a statement that fails before the commit leaves the rows as they were
store_terms(tbl, line, fault) ==
    IF fault = "insert" THEN tbl ELSE InsertAll(tbl, split(line))

\* what the operator may type at the prompt
InputLines ==
    { AcmeCorp,
      <<" ">> \o Acme \o <<" ", ",", ",">> \o Globex,
      Empty }

\* SELECT term FROM terms: the rows in rowid order
fetchall(tbl) == tbl

----------------------------------------------------------------------------
(* Result objects handed to the reversal *)

EEText == <<"E","x","t","e","r","n","a","l"," ","E","n","t","i","t","y">>
NotesText == <<"N","o","t","e","s">>
CountText == <<"c","o","u","n","t">>
EntityText == <<"e","n","t","i","t","y">>

ColumnText(c) == IF c = EE THEN EEText ELSE NotesText

\* the columns of a frame in a fixed order
ColumnSeq(df) == IF EE \in df.cols THEN <<EE, NOTES>> ELSE <<NOTES>>

\* one row of a frame as a dict {column: value}
RowObject(df, i) ==
    [k \in 1..Len(ColumnSeq(df)) |->
        <<ColumnText(ColumnSeq(df)[k]), df.rows[i][ColumnSeq(df)[k]]>>]

SameEntity(df, i) == {j \in 1..Len(df.rows) : df.rows[j][EE] = df.rows[i][EE]}

\* a metric dict {"count": n, "entity": <value of row i>}
CountObject(df, i) ==
    << <<CountText, Num(<<Digits[Cardinality(SameEntity(df, i)) + 1]>>)>>,
       <<EntityText, df.rows[i][EE]>> >>

Queries(df) ==
    {[shape |-> "row", row |-> i] : i \in 1..Len(df.rows)}
        \cup (IF EE \in df.cols
              THEN {[shape |-> "count", row |-> i] : i \in 1..Len(df.rows)}
              ELSE {})

BuildObject(df, q) ==
    Dict(IF q.shape = "row" THEN RowObject(df, q.row) ELSE CountObject(df, q.row))

----------------------------------------------------------------------------
(* The state machine *)

Init ==
    /\ digest \in DigestFns
    /\ tableExists = FALSE
    /\ terms = <<>>
    /\ pc = "idle"
    /\ records = NoFrame
    /\ data = None
    /\ mapping = None
    /\ raised = "none"
    /\ result_object = None
    /\ query = None
    /\ restored = NotRun
    /\ reverse_raised = "none"
    /\ conn = "none"
    /\ main_pc = "not started"
    /\ stages = <<>>
    /\ written = {}

\* conn.close() is the last statement of each try block (DD_Term_Storage line 53,
\* DD_Pseudonymization line 67, DD_Unpseudonymization line 53) and no except
\* clause closes: a call whose statement raised after sqlite3.connect returns
\* with the connection still open, left to the interpreter's finalizer
connection_at_return(statement_raised) ==
    IF statement_raised THEN "open" ELSE "closed"

\* store_terms(): the operator appends terms before a run
StoreTerms(line, fault) ==
    /\ pc = "idle"
    /\ tableExists' = TRUE
    /\ terms' = store_terms(terms, line, fault)
    /\ conn' = connection_at_return(fault = "insert")
    /\ UNCHANGED <<digest, pc, records, data, mapping, raised, result_object, query,
                   restored, reverse_raised>>
    /\ UNCHANGED mainVars

\* the step at which the call raises: the SELECT fails when the table is absent,
\* and an injected fault hits only a step the call reaches
RaisedAt(df, fault) ==
    IF ~tableExists \/ fault = "db" THEN "db"
    ELSE IF fault = "terms" THEN "terms"
    ELSE IF fault = "entities" /\ EE \in df.cols THEN "entities"
    ELSE "none"

\* pseudonymize(clean_data); a caller may call it again on the same input
Pseudonymize(df, fault) ==
    /\ \/ pc = "idle"
       \/ pc = "pseudonymized" /\ df = records
    /\ LET out == pseudonymize(df, fetchall(terms), fault)
       IN  /\ data' = out.data
           /\ mapping' = out.mapping
    /\ raised' = RaisedAt(df, fault)
    /\ records' = df
    /\ pc' = "pseudonymized"
    /\ result_object' = None
    /\ query' = None
    /\ restored' = NotRun
    /\ reverse_raised' = "none"
    /\ conn' = connection_at_return(RaisedAt(df, fault) = "db")
    /\ UNCHANGED <<digest, tableExists, terms>>
    /\ UNCHANGED mainVars

\* the process ends: what it held in memory is gone, terms.db and the stored
\* pseudonymized output stay
ProcessExit ==
    /\ pc = "pseudonymized"
    /\ data # None
    /\ mapping # None
    /\ mapping' = None
    /\ UNCHANGED <<digest, tableExists, terms, pc, records, data, raised,
                   result_object, query, restored, reverse_raised, conn>>
    /\ UNCHANGED mainVars

\* unpseudonymize(result) on a result built from the pseudonymized data
Unpseudonymize(q, fault) ==
    /\ pc = "pseudonymized"
    /\ data # None
    /\ q \in Queries(data)
    /\ query' = q
    /\ result_object' = BuildObject(data, q)
    /\ restored' = unpseudonymize(BuildObject(data, q), fetchall(terms), fault)
    /\ reverse_raised' = unpseudonymize_raises(BuildObject(data, q), fetchall(terms), fault)
    /\ conn' = connection_at_return(~tableExists \/ fault = "db")
    /\ pc' = "reversed"
    /\ UNCHANGED <<digest, tableExists, terms, records, data, mapping, raised>>
    /\ UNCHANGED mainVars

\* the next run starts with nothing but terms.db
NewRun ==
    /\ pc \in {"pseudonymized", "reversed"}
    /\ pc' = "idle"
    /\ records' = NoFrame
    /\ data' = None
    /\ mapping' = None
    /\ raised' = "none"
    /\ result_object' = None
    /\ query' = None
    /\ restored' = NotRun
    /\ reverse_raised' = "none"
    /\ conn' = "none"
    /\ UNCHANGED <<digest, tableExists, terms>>
    /\ UNCHANGED mainVars

Next ==
    \/ \E line \in InputLines, fault \in {"none", "insert"} : StoreTerms(line, fault)
    \/ \E df \in Frames, fault \in {"none", "db", "terms", "entities"} :
           Pseudonymize(df, fault)
    \/ ProcessExit
    \/ \E q \in [shape : {"row", "count"}, row : 1..(MaxRows + 1)],
          fault \in {"none", "db"} : Unpseudonymize(q, fault)
    \/ NewRun

Spec == Init /\ [][Next]_vars

----------------------------------------------------------------------------
(* unpseudonymize applied to analysis results of either shape *)

\* the terms the operator registers one per call
ReverseLines == {AcmeCorp, Globex, AcmeQuoted}

\* an analysis result that holds `value` where the data held an original: a
\* dict of metrics, or the table analyze_data returns
ResultOf(shape, value) ==
    IF shape = "metrics"
    THEN Dict(<< <<CountText, Num(<<"2">>)>>, <<EntityText, Text(value)>> >>)
    ELSE Frame({EE, NOTES}, <<Row(Text(value), Null)>>)

\* unpseudonymize(analysis_results) on a result that holds the token of `original`
ReverseCall(shape, original, fault) ==
    /\ pc = "idle"
    /\ LET obj == ResultOf(shape, sha256_hexdigest10(original))
       IN  /\ result_object' = obj
           /\ restored' = unpseudonymize(obj, fetchall(terms), fault)
           /\ reverse_raised' = unpseudonymize_raises(obj, fetchall(terms), fault)
    /\ query' = [shape |-> shape, original |-> original]
    /\ conn' = connection_at_return(~tableExists \/ fault = "db")
    /\ pc' = "reversed"
    /\ UNCHANGED <<digest, tableExists, terms, records, data, mapping, raised>>
    /\ UNCHANGED mainVars

NextReverse ==
    \/ \E line \in ReverseLines : StoreTerms(line, "none")
    \/ \E shape \in {"metrics", "table"}, original \in ReverseLines,
          fault \in {"none", "db"} : ReverseCall(shape, original, fault)
    \/ NewRun

SpecReverse == Init /\ [][NextReverse]_vars

----------------------------------------------------------------------------
(* DD_Main.main, stage by stage *)

Stage(name, ok) == [stage |-> name, ok |-> ok]

\* lines 40-47: the two prompts; store_terms() runs when the operator answers
\* yes, prints its own errors and returns nothing, so main goes on either way
MainPrompts(update, line, fault) ==
    /\ main_pc = "not started"
    /\ IF update
       THEN /\ tableExists' = TRUE
            /\ terms' = store_terms(terms, line, fault)
            /\ conn' = connection_at_return(fault = "insert")
       ELSE UNCHANGED <<tableExists, terms, conn>>
    /\ main_pc' = "load"
    /\ UNCHANGED <<digest, pc, records, data, mapping, raised, result_object, query,
                   restored, reverse_raised, stages, written>>

\* a check of main that lets the run go on whatever pseudonymize returned
pseudonymize_failed_never(d) == FALSE

\* line 75: pseudonymized_data is None or pseudonymized_data.empty
pseudonymize_failed(d) == d = None \/ d.rows = <<>>

\* lines 50-54: data = load_data(path); None or an empty frame ends the run
MainLoad(loaded) ==
    /\ main_pc = "load"
    /\ IF loaded = None \/ loaded.rows = <<>>
       THEN /\ stages' = Append(stages, Stage("load", FALSE))
            /\ main_pc' = "ended"
            /\ UNCHANGED records
       ELSE /\ stages' = Append(stages, Stage("load", TRUE))
            /\ main_pc' = "clean"
            /\ records' = loaded
    /\ UNCHANGED <<digest, tableExists, terms, pc, data, mapping, raised,
                   result_object, query, restored, reverse_raised, conn, written>>

\* lines 59-63: clean_data = clean_and_prepare(data), which fills 'Core System'
\* and 'Core Process' and leaves 'External Entity' and 'Notes' as loaded, or
\* returns None
MainClean(ok) ==
    /\ main_pc = "clean"
    /\ stages' = Append(stages, Stage("clean", ok))
    /\ main_pc' = IF ok THEN "pseudonymize" ELSE "ended"
    /\ UNCHANGED <<digest, tableExists, terms, pc, records, data, mapping, raised,
                   result_object, query, restored, reverse_raised, conn, written>>

\* lines 73-77: pseudonymized_data, mapping = pseudonymize(clean_data)
MainPseudonymize(fault) ==
    /\ main_pc = "pseudonymize"
    /\ LET out == pseudonymize(records, fetchall(terms), fault)
       IN  /\ data' = out.data
           /\ mapping' = out.mapping
           /\ stages' = Append(stages, Stage("pseudonymize", out.data # None))
           /\ main_pc' = IF pseudonymize_failed(out.data) THEN "ended" ELSE "analyze"
    /\ raised' = RaisedAt(records, fault)
    /\ conn' = connection_at_return(RaisedAt(records, fault) = "db")
    /\ UNCHANGED <<digest, tableExists, terms, pc, records, result_object, query,
                   restored, reverse_raised, written>>

\* line 86: analyze_data(pseudonymized_data), a call with one argument of a
\* function declared analyze_data(data, output_path): Python raises TypeError at
\* the call, nothing in main catches it, and the run ends there; lines 88-108
\* (store intermediate, unpseudonymize, store final) are never reached
MainAnalyze ==
    /\ main_pc = "analyze"
    /\ stages' = Append(stages, Stage("analyze", FALSE))
    /\ main_pc' = "crashed"
    /\ UNCHANGED <<digest, tableExists, terms, pc, records, data, mapping, raised,
                   result_object, query, restored, reverse_raised, conn, written>>

\* main is run again: terms.db is all that is left of the earlier run
MainAgain ==
    /\ main_pc \in {"ended", "crashed"}
    /\ main_pc' = "not started"
    /\ stages' = <<>>
    /\ records' = NoFrame
    /\ data' = None
    /\ mapping' = None
    /\ raised' = "none"
    /\ conn' = "none"
    /\ UNCHANGED <<digest, tableExists, terms, pc, result_object, query, restored,
                   reverse_raised, written>>

NextMain ==
    \/ \E update \in BOOLEAN, line \in InputLines, fault \in {"none", "insert"} :
           MainPrompts(update, line, fault)
    \/ \E loaded \in Frames \cup {None} : MainLoad(loaded)
    \/ \E ok \in BOOLEAN : MainClean(ok)
    \/ \E fault \in {"none", "db", "entities"} : MainPseudonymize(fault)
    \/ MainAnalyze
    \/ MainAgain

SpecMain == Init /\ [][NextMain]_vars

----------------------------------------------------------------------------
(* Properties *)

\* the last pseudonymize call returned a record set
Succeeded == pc \in {"pseudonymized", "reversed"} /\ data # None

\* unpseudonymize has returned an object
Reversed == pc = "reversed" /\ restored # None

\* the keys of term_mapping for the registry as it is
TermKeys == {strip(t) : t \in {u \in Range(terms) : u # Empty}}

IsHex(c) == \E i \in 1..Len(HexDigits) : HexDigits[i] = c

IsToken(cell) ==
    /\ cell.t = "text"
    /\ Len(cell.v) = TokenLen
    /\ \A k \in 1..Len(cell.v) : IsHex(cell.v[k])

\* the result object of query q with the original values in place of the tokens
OriginalObject(q) ==
    Dict(IF q.shape = "row" THEN RowObject(records, q.row)
         ELSE <<result_object.items[1], <<EntityText, records.rows[q.row][EE]>>>>)

HoldsToken(obj) == \E k \in 1..Len(obj.items) : IsToken(obj.items[k][2])

\* C1: round-trip law: unpseudonymize applied to a row that pseudonymize
\* produced returns the row of the input, every identity value and every
\* registered-term occurrence restored, and no pseudonym token is left in it.
C1_RoundTrip ==
    (Reversed /\ query.shape = "row" /\ EE \in records.cols)
        => /\ restored = OriginalObject(query)
           /\ ~HoldsToken(restored)

\* C2: end-to-end scenario: with registry {"Acme Corp"} and identity values
\* "Acme Corp", "Acme Corp", "Globex", the two "Acme Corp" rows carry one token
\* P1, the "Globex" row a token P2 # P1, and unpseudonymize of
\* {"count": 2, "entity": P1} returns {"count": 2, "entity": "Acme Corp"}.
C2_EndToEnd ==
    (Succeeded /\ terms = <<AcmeCorp>> /\ records = EndToEndFrame)
        => /\ IsToken(data.rows[1][EE])
           /\ IsToken(data.rows[3][EE])
           /\ data.rows[1][EE] = data.rows[2][EE]
           /\ data.rows[1][EE] # data.rows[3][EE]
           /\ (Reversed /\ query = [shape |-> "count", row |-> 1])
                 => restored = Dict(<< <<CountText, Num(<<"2">>)>>,
                                       <<EntityText, Text(AcmeCorp)>> >>)

\* C3: injectivity: two distinct originals never hold the same pseudonym in
\* the mapping a pseudonymize call returns (a collision fails the call).
C3_Injective ==
    (Succeeded /\ mapping # None)
        => \A i, j \in 1..Len(mapping.items) :
               mapping.items[i][1] # mapping.items[j][1]
                   => mapping.items[i][2] # mapping.items[j][2]

C5_WholeValue ==
    Succeeded
        => \A i \in 1..Len(records.rows) :
               /\ LET before == records.rows[i][NOTES]
                      after == data.rows[i][NOTES]
                  IN  IF before.t = "text" /\ before.v \in TermKeys
                      THEN after = Text(sha256_hexdigest10(before.v))
                      ELSE after = before
               /\ (EE \in records.cols /\ records.rows[i][EE].t = "text"
                      /\ records.rows[i][EE].v \in TermKeys)
                     => IsToken(data.rows[i][EE])

\* term "Acme" registered, the note "Contact Acme Corp today" untouched, the
\* identity cell "Acme" substituted
C5_Witness ==
    /\ Succeeded
    /\ Acme \in TermKeys
    /\ \E i \in 1..Len(records.rows) :
           /\ EE \in records.cols
           /\ records.rows[i][EE] = Text(Acme)
           /\ records.rows[i][NOTES] = Text(ContactNote)
           /\ data.rows[i][NOTES] = Text(ContactNote)
           /\ IsToken(data.rows[i][EE])

\* C6: persistence across runs: unpseudonymize in a fresh process, with only
\* the persisted store, returns the original value of every value that was
\* pseudonymized, registered term or not.
C6_Persistence ==
    (Reversed /\ mapping = None) => restored = OriginalObject(query)

\* C7: identity coverage: after a successful pseudonymize no non-null cell of
\* 'External Entity' still holds its original value, and two rows hold the same
\* value afterwards exactly when they held the same value before.
C7_IdentityCoverage ==
    (Succeeded /\ EE \in records.cols)
        => /\ \A i \in 1..Len(records.rows) :
                  records.rows[i][EE].t # "null"
                      => data.rows[i][EE] # records.rows[i][EE]
           /\ \A i, j \in 1..Len(records.rows) :
                  (data.rows[i][EE] = data.rows[j][EE])
                      <=> (records.rows[i][EE] = records.rows[j][EE])

\* C8: the term registry never holds an empty or whitespace-only term.
C8_NoEmptyTerm == \A i \in 1..Len(terms) : strip(terms[i]) # Empty

\* C9: term insertion is idempotent and append-only: no step removes or changes
\* a stored term, and the registry never holds a term twice (so re-adding a
\* stored term leaves the registry as it was).
C9_AppendOnly ==
    [][/\ Len(terms) <= Len(terms')
       /\ \A i \in 1..Len(terms) : terms'[i] = terms[i]
       /\ \A i, j \in 1..Len(terms') : terms'[i] = terms'[j] => i = j]_vars

\* "" was stored first and the line " Acme ,,Globex", whose middle entry is ""
\* again, was stored after it
C9_Witness == terms = <<Empty, Acme, Globex>>

C11_ReturnsOriginal ==
    (pc = "reversed" /\ reverse_raised # "none") => restored = result_object

\* C11: reversal failure: an unpseudonymize call that fails (the registry cannot
\* be read, or the object cannot be serialised and parsed back) never returns a
\* partially restored object; it returns None, which is its error signal, and
\* not the object it was given; an object is returned only by a call in which
\* nothing raised.
C11_FailureReturnsNone ==
    (pc = "reversed")
        => /\ (reverse_raised # "none") => (restored = None /\ restored # result_object)
           /\ (restored # None) => reverse_raised = "none"

\* the replacement put the text `Acme "A"` inside a JSON string, and json.loads
\* rejected the result
C11_Witness ==
    /\ pc = "reversed"
    /\ reverse_raised = "JSONDecodeError"
    /\ query.original = AcmeQuoted
    /\ restored = None

\* C12: one token for both directions: the token of a registered term is the
\* first 10 hexadecimal characters of the digest of its trimmed text, with no
\* salt, so in every run the token pseudonymize wrote into its mapping for a
\* term of the registry is the token unpseudonymize derives for that term from
\* the registry row.
C12_SharedToken ==
    (Succeeded /\ mapping # None)
        => \A i \in 1..Len(terms) :
               (terms[i] # Empty)
                   => /\ strip(terms[i]) \in DictKeys(mapping.items)
                      /\ IsToken(Text(DictGet(mapping.items, strip(terms[i]))))
                      /\ DictGet(mapping.items, strip(terms[i]))
                             \in DictKeys(ReverseMapping(fetchall(terms), <<>>))
                      /\ (digest = InjectiveDigest)
                            => DictGet(ReverseMapping(fetchall(terms), <<>>),
                                       DictGet(mapping.items, strip(terms[i]))) = terms[i]

\* "Acme" was typed as " Acme " at the prompt, and a Notes field equal to it now
\* holds its token
C12_Witness ==
    /\ Succeeded
    /\ mapping # None
    /\ Acme \in Range(terms)
    /\ \E i \in 1..Len(records.rows) :
           /\ records.rows[i][NOTES] = Text(Acme)
           /\ data.rows[i][NOTES] = Text(DictGet(mapping.items, Acme))
           /\ IsToken(data.rows[i][NOTES])

\* C13: shape independence: unpseudonymize restores the original both when the
\* analysis result is a dict of metrics and when it is a table; with the
\* registry readable and the original a registered term, the call on either
\* shape returns the result with the original in place of the token.
C13_ShapeIndependent ==
    (/\ pc = "reversed"
     /\ reverse_raised # "sqlite3.Error"
     /\ digest = InjectiveDigest
     /\ query.original \in Range(terms)
     /\ ~Contains(query.original, <<"\"">>))
        => restored = ResultOf(query.shape, query.original)

C15_ExactMapping ==
    (Succeeded /\ mapping # None)
        => /\ \A i \in 1..Len(records.rows) : \A c \in records.cols :
                  (data.rows[i][c] # records.rows[i][c])
                      => /\ records.rows[i][c].v \in DictKeys(mapping.items)
                         /\ data.rows[i][c]
                                = Text(DictGet(mapping.items, records.rows[i][c].v))
           /\ \A k \in DictKeys(mapping.items) :
                  \/ k \in Range(terms)
                  \/ /\ EE \in records.cols
                     /\ \E i \in 1..Len(records.rows) :
                            records.rows[i][EE].t # "null" /\ records.rows[i][EE].v = k

\* the order of the stages of main
StageOrder ==
    <<"load", "clean", "pseudonymize", "analyze", "store intermediate",
      "unpseudonymize", "store final">>

C17_ClosedAtReturn == conn # "open"

\* C18: no double pseudonymization: after a successful pseudonymize call an
\* identity cell that equalled a registered term t holds the pseudonym of t,
\* the token that replaces t in every other column, not the hash of that
\* token, and no key of the returned mapping is a token the call produced.
C18_NoDoubleHash ==
    (Succeeded /\ EE \in records.cols)
        => /\ \A i \in 1..Len(records.rows) :
                  (records.rows[i][EE].t = "text" /\ records.rows[i][EE].v \in TermKeys)
                      => data.rows[i][EE] = Text(sha256_hexdigest10(records.rows[i][EE].v))
           /\ (mapping # None)
                 => \A j, k \in 1..Len(mapping.items) :
                        mapping.items[j][1] # mapping.items[k][2]

====
